---------------------------- MODULE Spec2Model ----------------------------
(***************************************************************************)
(* Model of graph-gen/nyc/segmentize.ipynb: the notebook that loads the    *)
(* NYC sidewalk lines, crops/simplifies them for plots, segmentizes every  *)
(* line into points at a spacing of 50, re-attaches the line attributes,   *)
(* reprojects, clips for visualisation, renders three figures and exports  *)
(* the point table as CSV.  One action per code cell that changes state;   *)
(* the display-only cells (describe, info, bare names) change nothing.     *)
(*                                                                         *)
(* Geometry.  A line is a sequence of vertices <<x, y>> with integer       *)
(* coordinates.  A point produced by segmentize is <<xn, yn, d>>, the      *)
(* exact rational location (xn/d, yn/d) in lowest terms, so that equality  *)
(* of points is equality of locations.                                     *)
(*                                                                         *)
(* Reference systems.  A table carries the name of its CRS.  Reprojection  *)
(* from "EPSG:4326" to "EPSG:2263" is abstracted as the anisotropic        *)
(* scaling x -> 3x, y -> 4y (one source unit east or north is a different  *)
(* number of feet); reprojection from a CRS to itself changes nothing.     *)
(***************************************************************************)
EXTENDS Integers, Sequences, FiniteSets, TLC

VARIABLES
    pc,                          \* the cell the run is about to execute
    USE_SIDEWALK_WIDTHS,         \* cell 2: source-selection flag
    file_streets,                \* content of the line file the flag selects
    file_crs,                    \* the CRS that file declares
    nyc_ntas,                    \* cell 2: boundary polygons
    nyc_streets,                 \* cell 3: the line table
    streets_crs,                 \* CRS of nyc_streets
    nyc_streets_crop,            \* cell 5
    nyc_streets_crop_simplified, \* cell 6
    segmentized,                 \* cells 10-14: the point table
    segmentized_crs,             \* CRS of the point geometry
    segmentized_crop,            \* cell 15
    files                        \* files written: set of [name, content]

vars == <<pc, USE_SIDEWALK_WIDTHS, file_streets, file_crs, nyc_ntas,
          nyc_streets, streets_crs, nyc_streets_crop,
          nyc_streets_crop_simplified, segmentized, segmentized_crs,
          segmentized_crop, files>>

\* ------------------------------------------------------------- bounds
\* Largest number of line rows in the loaded file.
MaxLines == 2

\* ---------------------------------------------------- program constants
SimplifyTolerance == 10     \* simplify(10)
PlotSpacing == 10           \* nyc_streets_crop.segmentize(10)
Spacing == 50               \* nyc_streets.segmentize(50)
NOI == "Greenpoint"
TargetCrs == "EPSG:2263"
GeoJsonCrs == "EPSG:4326"

\* ------------------------------------------------------------ inputs
\* Line geometries a file may hold: straight lines of length 10, 60 and
\* 120, a line with a shallow bend (middle vertex 5 from the chord), a line
\* with a sharp bend (two segments of length 50) and a closed ring.
LineGeoms ==
    { << <<0, 0>>, <<10, 0>> >>,
      << <<0, 0>>, <<60, 0>> >>,
      << <<0, 0>>, <<120, 0>> >>,
      << <<0, 0>>, <<60, 5>>, <<120, 0>> >>,
      << <<0, 0>>, <<30, 40>>, <<60, 0>> >>,
      << <<0, 0>>, <<30, 0>>, <<30, 40>>, <<0, 0>> >> }

\* Values of the one descriptive attribute column a line row carries.
AttrValues == {"w1", "w2"}

LineRows == [geometry : LineGeoms, attr : AttrValues]

LineTables == UNION { [1..n -> LineRows] : n \in 1..MaxLines }

\* The boundary file: named polygons (axis-parallel boxes lo..hi), read as
\* EPSG:2263 coordinates.
NtaFile ==
    << [NTAName |-> "Greenpoint", lo |-> <<0, 0>>, hi |-> <<70, 45>>],
       [NTAName |-> "Williamsburg", lo |-> <<70, 0>>, hi |-> <<400, 45>>] >>

\* ------------------------------------------------------- arithmetic
Abs(n) == IF n < 0 THEN -n ELSE n

RECURSIVE GCD(_, _)
GCD(a, b) == IF b = 0 THEN a ELSE GCD(b, a % b)

\* The rational point (xn/d, yn/d) in lowest terms.
Pt(xn, yn, d) ==
    LET g == GCD(GCD(Abs(xn), Abs(yn)), d)
    IN  <<xn \div g, yn \div g, d \div g>>

Sq(n) == n * n

\* Squared length of the segment a-b (integer vertices).
Len2(a, b) == Sq(b[1] - a[1]) + Sq(b[2] - a[2])


\* ------------------------------------------------------ reprojection
\* to_crs on one integer vertex of a line.
ToCrsVertex(v, from, to) ==
    IF from = to THEN v
    ELSE IF from = GeoJsonCrs /\ to = TargetCrs THEN <<3 * v[1], 4 * v[2]>>
    ELSE v   \* no other transformation is ever requested by the notebook

\* to_crs on one rational point.
ToCrsPoint(p, from, to) ==
    IF from = to THEN p
    ELSE IF from = GeoJsonCrs /\ to = TargetCrs THEN Pt(3 * p[1], 4 * p[2], p[3])
    ELSE p

ToCrsLine(line, from, to) ==
    [k \in 1..Len(line) |-> ToCrsVertex(line[k], from, to)]

\* GeoDataFrame.to_crs on a line table: every geometry, attributes kept.
ToCrsLineTable(t, from, to) ==
    [i \in 1..Len(t) |->
        [t[i] EXCEPT !.geometry = ToCrsLine(t[i].geometry, from, to)]]

\* ---------------------------------------------------------- simplify
\* Squared distance from vertex p to the segment a-b, multiplied by
\* DistDen(a, b) so that it stays an integer.
DistDen(a, b) == IF a = b THEN 1 ELSE Len2(a, b)

DistNum(p, a, b) ==
    IF a = b THEN Len2(p, a)
    ELSE LET l2 == Len2(a, b)
             t  == (p[1] - a[1]) * (b[1] - a[1]) + (p[2] - a[2]) * (b[2] - a[2])
             cr == (b[1] - a[1]) * (p[2] - a[2]) - (b[2] - a[2]) * (p[1] - a[1])
         IN  IF t <= 0 THEN Len2(p, a) * l2
             ELSE IF t >= l2 THEN Len2(p, b) * l2
             ELSE Sq(cr)

\* The first vertex strictly between i and j that is furthest from the
\* segment line[i]-line[j].
Furthest(line, i, j) ==
    LET d(k) == DistNum(line[k], line[i], line[j])
    IN  CHOOSE k \in (i + 1)..(j - 1) :
            /\ \A m \in (i + 1)..(j - 1) : d(k) >= d(m)
            /\ \A m \in (i + 1)..(k - 1) : d(m) < d(k)

\* Douglas-Peucker on the section i..j: the section collapses to its two
\* ends when every vertex between them is within the tolerance.
RECURSIVE SimplifySection(_, _, _, _)
SimplifySection(line, i, j, tol) ==
    IF j <= i + 1 THEN [k \in 1..(j - i + 1) |-> line[i + k - 1]]
    ELSE LET f == Furthest(line, i, j)
         IN  IF DistNum(line[f], line[i], line[j])
                    > Sq(tol) * DistDen(line[i], line[j])
             THEN SimplifySection(line, i, f, tol)
                      \o Tail(SimplifySection(line, f, j, tol))
             ELSE <<line[i], line[j]>>

\* geometry.simplify(tol) on one line.
SimplifyLine(line, tol) == SimplifySection(line, 1, Len(line), tol)

\* GeoDataFrame.simplify: a geometry series aligned with the table's rows.
SimplifySeries(t, tol) ==
    [i \in 1..Len(t) |-> SimplifyLine(t[i].geometry, tol)]

\* --------------------------------------------------------- segmentize
\* Number of equal parts a segment of squared length l2 is cut into: the
\* least n >= 1 with n * s >= length, i.e. ceil(length / s).
RECURSIVE Parts(_, _, _)
Parts(l2, s, n) == IF Sq(n * s) >= l2 THEN n ELSE Parts(l2, s, n + 1)

\* Faulty variant of SegmentCount: the quotient is rounded down instead of up.
RECURSIVE PartsDown(_, _, _)
PartsDown(l2, s, n) == IF Sq((n + 1) * s) > l2 THEN n ELSE PartsDown(l2, s, n + 1)

SegmentCountFloor(a, b, s) == PartsDown(Len2(a, b), s, 1)

SegmentCount(a, b, s) == Parts(Len2(a, b), s, 1)

\* The new vertices on a-b after a: the interior division points, then b.
SegmentPoints(a, b, s) ==
    LET n == SegmentCount(a, b, s)
    IN  [j \in 1..n |->
            Pt(n * a[1] + j * (b[1] - a[1]), n * a[2] + j * (b[2] - a[2]), n)]

RECURSIVE DensifyFrom(_, _, _)
DensifyFrom(line, k, s) ==
    IF k >= Len(line) THEN <<>>
    ELSE SegmentPoints(line[k], line[k + 1], s) \o DensifyFrom(line, k + 1, s)

\* Consecutive repeated coordinates are not inserted twice.
RECURSIVE NoRepeats(_)
NoRepeats(ps) ==
    IF Len(ps) <= 1 THEN ps
    ELSE IF ps[1] = ps[2] THEN NoRepeats(Tail(ps))
    ELSE <<ps[1]>> \o NoRepeats(Tail(ps))

\* geometry.segmentize(s) on one line: every segment longer than s is
\* divided evenly into ceil(length / s) parts.
SegmentizeLine(line, s) ==
    NoRepeats(<<Pt(line[1][1], line[1][2], 1)>> \o DensifyFrom(line, 1, s))

\* Faulty variant of ExtractUniquePoints: every vertex is kept, repeated or not.
ExtractAllPoints(ps) == ps

\* extract_unique_points: the distinct locations, in order of first
\* occurrence.
RECURSIVE UniqueFrom(_, _)
UniqueFrom(ps, seen) ==
    IF ps = <<>> THEN <<>>
    ELSE IF ps[1] \in seen THEN UniqueFrom(Tail(ps), seen)
    ELSE <<ps[1]>> \o UniqueFrom(Tail(ps), seen \cup {ps[1]})

ExtractUniquePoints(ps) == UniqueFrom(ps, {})


\* ------------------------------------------------------------- tables
\* Concatenation of a sequence of sequences.
RECURSIVE Flatten(_)
Flatten(ss) == IF ss = <<>> THEN <<>> ELSE ss[1] \o Flatten(Tail(ss))

\* GeoSeries.explode(index_parts=True): one row per point of each
\* multipoint, indexed by (row label of the line, position in the part).
\* Row labels of a table read from a file are 0, 1, 2, ...
Explode(series) ==
    Flatten([i \in 1..Len(series) |->
        [j \in 1..Len(series[i]) |->
            [index |-> <<i - 1, j - 1>>, geom |-> series[i][j]]]])

\* nyc_streets.segmentize(s).extract_unique_points()
UniquePointSeries(t, s) ==
    [i \in 1..Len(t) |-> ExtractUniquePoints(SegmentizeLine(t[i].geometry, s))]

\* GeoDataFrame(series).reset_index(): the two index levels become the
\* columns level_0 and level_1, the geometry is the column named 0, and the
\* rows are labelled 0, 1, 2, ...
ResetIndex(series) ==
    [k \in 1..Len(series) |->
        [idx |-> k - 1, level_0 |-> series[k].index[1],
         level_1 |-> series[k].index[2], c0 |-> series[k].geom]]

\* Faulty variant of JoinKey: the join uses the position within the line.
JoinKeyLevel1(row) == row.level_1

\* left_on = 'level_0'
JoinKey(row) == row.level_0

\* The rows of the right table whose row label equals the key, each
\* combined with the left row; then drop level_0, level_1 and the line
\* geometry, and move column 0 into 'geometry'.
MergeRow(l, right) ==
    LET hits == SelectSeq([i \in 1..Len(right) |-> i - 1],
                          LAMBDA lab : lab = JoinKey(l))
    IN  [h \in 1..Len(hits) |->
            [idx |-> l.idx, attr |-> right[hits[h] + 1].attr, geometry |-> l.c0]]

\* segmentized.merge(nyc_streets, left_on='level_0', right_index=True)
\* followed by the column moves of cell 13.
Merge(left, right) ==
    Flatten([k \in 1..Len(left) |-> MergeRow(left[k], right)])

\* GeoDataFrame.to_crs on the point table.
ToCrsPointTable(t, from, to) ==
    [k \in 1..Len(t) |->
        [t[k] EXCEPT !.geometry = ToCrsPoint(t[k].geometry, from, to)]]

\* nyc_ntas[nyc_ntas.NTAName == NOI]
NtaCrop(ntas) == SelectSeq(ntas, LAMBDA n : n.NTAName = NOI)

\* An integer vertex lies in a box.
VertexInBox(v, b) ==
    /\ b.lo[1] <= v[1] /\ v[1] <= b.hi[1]
    /\ b.lo[2] <= v[2] /\ v[2] <= b.hi[2]

\* A rational point lies in a box (boundary included).
PointInBox(p, b) ==
    /\ b.lo[1] * p[3] <= p[1] /\ p[1] <= b.hi[1] * p[3]
    /\ b.lo[2] * p[3] <= p[2] /\ p[2] <= b.hi[2] * p[3]

\* gpd.sjoin(lines, polygons, op='within'): the lines that lie within one
\* of the polygons, with their row labels.
SJoinWithin(t, polys) ==
    SelectSeq([i \in 1..Len(t) |->
                 [idx |-> i - 1, geometry |-> t[i].geometry, attr |-> t[i].attr]],
              LAMBDA r : \E n \in 1..Len(polys) :
                  \A k \in 1..Len(r.geometry) : VertexInBox(r.geometry[k], polys[n]))

\* Faulty variant of ClipPoints: the retained rows are relabelled 0, 1, ...
ClipPointsRelabelled(t, polys) ==
    LET kept == SelectSeq(t, LAMBDA r :
                    \E n \in 1..Len(polys) : PointInBox(r.geometry, polys[n]))
    IN  [k \in 1..Len(kept) |-> [kept[k] EXCEPT !.idx = k - 1]]

\* gpd.clip(points, polygons): the point rows that intersect the mask;
\* rows are kept whole.
ClipPoints(t, polys) ==
    SelectSeq(t, LAMBDA r : \E n \in 1..Len(polys) : PointInBox(r.geometry, polys[n]))

\* DataFrame.to_csv(path): the row label is written as the first column.
ToCsv(t) ==
    [k \in 1..Len(t) |->
        [index |-> t[k].idx, attr |-> t[k].attr, geometry |-> t[k].geometry]]

\* Writing a file replaces any file of that name.
WriteFile(fs, name, content) ==
    {f \in fs : f.name # name} \cup {[name |-> name, content |-> content]}

HasFile(fs, name) == \E f \in fs : f.name = name

FileContent(fs, name) == (CHOOSE f \in fs : f.name = name).content

Fig1 == "greenpoint_sidewalks.png"
Fig2 == "greenpoint_sidewalks_segmentized.png"
Fig3 == "sidewalk_segmentization.png"
CsvPath == "segmentized_nyc_sidewalks.csv"


\* ------------------------------------------------------- control flow
\* The state-changing cells in notebook order.
Cells ==
    << "load_ntas", "load_streets", "sjoin", "simplify_crop", "plot_sidewalks",
       "apply_simplify", "segmentize", "reset_index", "rejoin", "reproject",
       "clip", "plot_crop", "plot_side_by_side", "export" >>

CellNo(c) == CHOOSE k \in 1..Len(Cells) : Cells[k] = c

\* The cell that runs after cell c completes.
NextCell(c) == IF CellNo(c) = Len(Cells) THEN "done" ELSE Cells[CellNo(c) + 1]

\* Faulty variant of Raise: an exception of a figure cell is swallowed and
\* the run goes on with the next cell.
RaiseSwallowed(c) ==
    IF c \in {"plot_sidewalks", "plot_crop", "plot_side_by_side"}
    THEN NextCell(c)
    ELSE "aborted"

\* An exception raised in cell c is handled nowhere: the run stops.
Raise(c) == "aborted"

Running == pc \notin {"done", "aborted"}

\* Position of the run: the number of cells completed.
Completed(c) ==
    IF pc = "done" THEN TRUE
    ELSE IF pc = "aborted" THEN FALSE
    ELSE CellNo(pc) > CellNo(c)

Init ==
    /\ pc = "load_ntas"
    /\ USE_SIDEWALK_WIDTHS \in BOOLEAN
    /\ file_streets \in LineTables
    /\ file_crs \in {GeoJsonCrs, TargetCrs}
    /\ nyc_ntas = <<>>
    /\ nyc_streets = <<>>
    /\ streets_crs = "unset"
    /\ nyc_streets_crop = <<>>
    /\ nyc_streets_crop_simplified = <<>>
    /\ segmentized = <<>>
    /\ segmentized_crs = "unset"
    /\ segmentized_crop = <<>>
    /\ files = {}

\* Cell 2: read the boundary file; the CRS is assigned, not transformed.
LoadNtas ==
    /\ pc = "load_ntas"
    /\ nyc_ntas' = NtaFile
    /\ pc' = NextCell(pc)
    /\ UNCHANGED <<USE_SIDEWALK_WIDTHS, file_streets, file_crs, nyc_streets,
                   streets_crs, nyc_streets_crop, nyc_streets_crop_simplified,
                   segmentized, segmentized_crs, segmentized_crop, files>>

\* Cell 3: read the line file; only the Sidewalk.geojson branch reprojects.
LoadStreets ==
    /\ pc = "load_streets"
    /\ IF ~USE_SIDEWALK_WIDTHS
       THEN /\ nyc_streets' = ToCrsLineTable(file_streets, file_crs, TargetCrs)
            /\ streets_crs' = TargetCrs
       ELSE /\ nyc_streets' = file_streets
            /\ streets_crs' = file_crs
    /\ pc' = NextCell(pc)
    /\ UNCHANGED <<USE_SIDEWALK_WIDTHS, file_streets, file_crs, nyc_ntas,
                   nyc_streets_crop, nyc_streets_crop_simplified,
                   segmentized, segmentized_crs, segmentized_crop, files>>

\* Cell 5: crop the lines to the neighbourhood of interest.
SJoin ==
    /\ pc = "sjoin"
    /\ nyc_streets_crop' = SJoinWithin(nyc_streets, NtaCrop(nyc_ntas))
    /\ pc' = NextCell(pc)
    /\ UNCHANGED <<USE_SIDEWALK_WIDTHS, file_streets, file_crs, nyc_ntas,
                   nyc_streets, streets_crs, nyc_streets_crop_simplified,
                   segmentized, segmentized_crs, segmentized_crop, files>>

\* Cell 6: simplify the cropped geometry into a separate value.
SimplifyCrop ==
    /\ pc = "simplify_crop"
    /\ nyc_streets_crop_simplified' =
           SimplifySeries(nyc_streets_crop, SimplifyTolerance)
    /\ pc' = NextCell(pc)
    /\ UNCHANGED <<USE_SIDEWALK_WIDTHS, file_streets, file_crs, nyc_ntas,
                   nyc_streets, streets_crs, nyc_streets_crop,
                   segmentized, segmentized_crs, segmentized_crop, files>>

\* Cell 7: plot the cropped lines segmentized at 10 and save the figure.
PlotSidewalks ==
    /\ pc = "plot_sidewalks"
    /\ files' = WriteFile(files, Fig1,
           [i \in 1..Len(nyc_streets_crop) |->
               SegmentizeLine(nyc_streets_crop[i].geometry, PlotSpacing)])
    /\ pc' = NextCell(pc)
    /\ UNCHANGED <<USE_SIDEWALK_WIDTHS, file_streets, file_crs, nyc_ntas,
                   nyc_streets, streets_crs, nyc_streets_crop,
                   nyc_streets_crop_simplified, segmentized, segmentized_crs,
                   segmentized_crop>>

\* Faulty variant of SimplifiedStreets: the flag test is inverted.
SimplifiedStreetsInverted(t, flag) ==
    IF flag
    THEN [i \in 1..Len(t) |->
             [t[i] EXCEPT !.geometry = SimplifySeries(t, SimplifyTolerance)[i]]]
    ELSE t

\* Cell 8: the simplification is applied to the whole line table, but only
\* when the Sidewalk.geojson source was loaded.
SimplifiedStreets(t, flag) ==
    IF ~flag
    THEN [i \in 1..Len(t) |->
             [t[i] EXCEPT !.geometry = SimplifySeries(t, SimplifyTolerance)[i]]]
    ELSE t

ApplySimplify ==
    /\ pc = "apply_simplify"
    /\ nyc_streets' = SimplifiedStreets(nyc_streets, USE_SIDEWALK_WIDTHS)
    /\ pc' = NextCell(pc)
    /\ UNCHANGED <<USE_SIDEWALK_WIDTHS, file_streets, file_crs, nyc_ntas,
                   streets_crs, nyc_streets_crop, nyc_streets_crop_simplified,
                   segmentized, segmentized_crs, segmentized_crop, files>>

\* Cell 10: segmentize at 50, take the unique vertices, one row per point.
Segmentize ==
    /\ pc = "segmentize"
    /\ segmentized' = Explode(UniquePointSeries(nyc_streets, Spacing))
    /\ segmentized_crs' = streets_crs
    /\ pc' = NextCell(pc)
    /\ UNCHANGED <<USE_SIDEWALK_WIDTHS, file_streets, file_crs, nyc_ntas,
                   nyc_streets, streets_crs, nyc_streets_crop,
                   nyc_streets_crop_simplified, segmentized_crop, files>>

\* Cell 11: turn the two index levels into columns.
ResetIndexCell ==
    /\ pc = "reset_index"
    /\ segmentized' = ResetIndex(segmentized)
    /\ pc' = NextCell(pc)
    /\ UNCHANGED <<USE_SIDEWALK_WIDTHS, file_streets, file_crs, nyc_ntas,
                   nyc_streets, streets_crs, nyc_streets_crop,
                   nyc_streets_crop_simplified, segmentized_crs,
                   segmentized_crop, files>>

\* Cell 13: merge the line attributes back onto the point rows.
Rejoin ==
    /\ pc = "rejoin"
    /\ segmentized' = Merge(segmentized, nyc_streets)
    /\ pc' = NextCell(pc)
    /\ UNCHANGED <<USE_SIDEWALK_WIDTHS, file_streets, file_crs, nyc_ntas,
                   nyc_streets, streets_crs, nyc_streets_crop,
                   nyc_streets_crop_simplified, segmentized_crs,
                   segmentized_crop, files>>

\* Cell 14: reproject the point table.
Reproject ==
    /\ pc = "reproject"
    /\ segmentized' = ToCrsPointTable(segmentized, segmentized_crs, TargetCrs)
    /\ segmentized_crs' = TargetCrs
    /\ pc' = NextCell(pc)
    /\ UNCHANGED <<USE_SIDEWALK_WIDTHS, file_streets, file_crs, nyc_ntas,
                   nyc_streets, streets_crs, nyc_streets_crop,
                   nyc_streets_crop_simplified, segmentized_crop, files>>

\* Faulty variant of ClipTarget: the clip result replaces the point table.
ClipTargetSelf(t, clipped) == clipped

\* Cell 15 assigns the clip result to segmentized_crop; the point table
\* `segmentized` keeps its value t.
ClipTarget(t, clipped) == t

Clip ==
    /\ pc = "clip"
    /\ segmentized_crop' = ClipPoints(segmentized, NtaCrop(nyc_ntas))
    /\ segmentized' = ClipTarget(segmentized, segmentized_crop')
    /\ pc' = NextCell(pc)
    /\ UNCHANGED <<USE_SIDEWALK_WIDTHS, file_streets, file_crs, nyc_ntas,
                   nyc_streets, streets_crs, nyc_streets_crop,
                   nyc_streets_crop_simplified, segmentized_crs, files>>

\* Cell 16: plot the clipped points and save the figure.
PlotCrop ==
    /\ pc = "plot_crop"
    /\ files' = WriteFile(files, Fig2,
           <<NtaCrop(nyc_ntas),
             [k \in 1..Len(segmentized_crop) |-> segmentized_crop[k].geometry]>>)
    /\ pc' = NextCell(pc)
    /\ UNCHANGED <<USE_SIDEWALK_WIDTHS, file_streets, file_crs, nyc_ntas,
                   nyc_streets, streets_crs, nyc_streets_crop,
                   nyc_streets_crop_simplified, segmentized, segmentized_crs,
                   segmentized_crop>>

\* Cell 17: side-by-side plot of the cropped lines, their simplification
\* and the clipped points.
PlotSideBySide ==
    /\ pc = "plot_side_by_side"
    /\ files' = WriteFile(files, Fig3,
           <<[i \in 1..Len(nyc_streets_crop) |-> nyc_streets_crop[i].geometry],
             nyc_streets_crop_simplified,
             [k \in 1..Len(segmentized_crop) |-> segmentized_crop[k].geometry]>>)
    /\ pc' = NextCell(pc)
    /\ UNCHANGED <<USE_SIDEWALK_WIDTHS, file_streets, file_crs, nyc_ntas,
                   nyc_streets, streets_crs, nyc_streets_crop,
                   nyc_streets_crop_simplified, segmentized, segmentized_crs,
                   segmentized_crop>>

\* Cell 18: write the point table.
Export ==
    /\ pc = "export"
    /\ files' = WriteFile(files, CsvPath, ToCsv(segmentized))
    /\ pc' = NextCell(pc)
    /\ UNCHANGED <<USE_SIDEWALK_WIDTHS, file_streets, file_crs, nyc_ntas,
                   nyc_streets, streets_crs, nyc_streets_crop,
                   nyc_streets_crop_simplified, segmentized, segmentized_crs,
                   segmentized_crop>>

\* Any cell may raise (missing file, malformed geometry, plotting error);
\* the cell's assignment and file write do not happen.
Fail ==
    /\ Running
    /\ pc' = Raise(pc)
    /\ UNCHANGED <<USE_SIDEWALK_WIDTHS, file_streets, file_crs, nyc_ntas,
                   nyc_streets, streets_crs, nyc_streets_crop,
                   nyc_streets_crop_simplified, segmentized, segmentized_crs,
                   segmentized_crop, files>>

Next ==
    \/ LoadNtas
    \/ LoadStreets
    \/ SJoin
    \/ SimplifyCrop
    \/ PlotSidewalks
    \/ ApplySimplify
    \/ Segmentize
    \/ ResetIndexCell
    \/ Rejoin
    \/ Reproject
    \/ Clip
    \/ PlotCrop
    \/ PlotSideBySide
    \/ Export
    \/ Fail

Spec == Init /\ [][Next]_vars


\* ============================================================ properties
RECURSIVE SumSeq(_)
SumSeq(ns) == IF ns = <<>> THEN 0 ELSE ns[1] + SumSeq(Tail(ns))

\* The line table as cell 3 loads it under a given flag.
LoadedUnder(flag) ==
    IF ~flag THEN ToCrsLineTable(file_streets, file_crs, TargetCrs)
    ELSE file_streets

\* The CRS of the line table under a given flag.
CrsUnder(flag) == IF ~flag THEN TargetCrs ELSE file_crs

\* The exploded point rows, with their back-references, that cells 10-11
\* derive from the line table.
Exploded == ResetIndex(Explode(UniquePointSeries(nyc_streets, Spacing)))

\* Point rows of the table t derived from line i, where e is the exploded
\* table whose k-th row gives the back-reference of t's k-th row.
PointsOfLine(t, e, i) ==
    {t[k].geometry :
        k \in {m \in 1..Len(t) : m <= Len(e) /\ e[m].level_0 = i - 1}}

\* Rows carrying back-reference i - 1 while the table still has level_0.
RowsOfLine(i) == {k \in 1..Len(segmentized) : segmentized[k].level_0 = i - 1}

AsPoint(v) == Pt(v[1], v[2], 1)

\* Position of the rational point p along a-b, times p[3].
Along(p, a, b) ==
    (p[1] - a[1] * p[3]) * (b[1] - a[1]) + (p[2] - a[2] * p[3]) * (b[2] - a[2])

OnSegment(p, a, b) ==
    /\ (b[1] - a[1]) * (p[2] - a[2] * p[3]) = (b[2] - a[2]) * (p[1] - a[1] * p[3])
    /\ 0 <= Along(p, a, b)
    /\ Along(p, a, b) <= Len2(a, b) * p[3]

OnLine(p, line) ==
    \E k \in 1..(Len(line) - 1) : OnSegment(p, line[k], line[k + 1])

Within(p, q, s) ==
    Sq(p[1] * q[3] - q[1] * p[3]) + Sq(p[2] * q[3] - q[2] * p[3])
        <= Sq(s * p[3] * q[3])

\* The points P include both ends of every segment of the line, and along
\* every segment each point but the last has a successor at most s away.
Covers(P, line, s) ==
    \A k \in 1..(Len(line) - 1) :
        LET a == line[k]
            b == line[k + 1]
        IN  /\ AsPoint(a) \in P
            /\ AsPoint(b) \in P
            /\ \A p \in P :
                 (OnSegment(p, a, b) /\ p # AsPoint(b)) =>
                    \E q \in P :
                        /\ OnSegment(q, a, b)
                        /\ Along(q, a, b) * p[3] > Along(p, a, b) * q[3]
                        /\ Within(p, q, s)


\* ------------------------------------------------------------------ C1
\* C1: after the rejoin, the point table has exactly the rows of the
\* exploded table, in order (none lost, none duplicated), and every row
\* carries the attribute of the line its back-reference names, which is the
\* attribute that line has in the loaded file; the geometry is the exploded
\* point (reprojected once cell 14 has run).
C1_RejoinKeepsAttributes ==
    Completed("rejoin") =>
        LET e == Exploded
            moved == Completed("reproject")
        IN  /\ Len(segmentized) = Len(e)
            /\ \A k \in 1..Len(segmentized) :
                 /\ k <= Len(e)
                 /\ segmentized[k].idx = e[k].idx
                 /\ segmentized[k].attr = nyc_streets[e[k].level_0 + 1].attr
                 /\ segmentized[k].attr = file_streets[e[k].level_0 + 1].attr
                 /\ segmentized[k].geometry =
                        IF moved
                        THEN ToCrsPoint(e[k].c0, streets_crs, TargetCrs)
                        ELSE e[k].c0

\* Two lines with different attributes have both been rejoined.
C1_Witness ==
    /\ pc = "reproject"
    /\ Len(nyc_streets) >= 2
    /\ nyc_streets[1].attr # nyc_streets[2].attr
    /\ \E k \in 1..Len(segmentized) : segmentized[k].attr = nyc_streets[1].attr
    /\ \E k \in 1..Len(segmentized) : segmentized[k].attr = nyc_streets[2].attr

\* ------------------------------------------------------------------ C2
\* The full point table: the rejoined rows reprojected to EPSG:2263.
FullPointTable ==
    ToCrsPointTable(Merge(Exploded, nyc_streets), streets_crs, TargetCrs)

\* C2: from the reprojection on, through the clip and the figure cells, the
\* point table stays the full reprojected table, and the exported file
\* holds exactly that table.
C2_ExportIsFullTable ==
    /\ Completed("reproject") => segmentized = FullPointTable
    /\ HasFile(files, CsvPath) =>
           FileContent(files, CsvPath) = ToCsv(FullPointTable)

\* The export happened although the clip retained fewer rows.
C2_Witness ==
    /\ pc = "done"
    /\ HasFile(files, CsvPath)
    /\ Len(segmentized_crop) < Len(FileContent(files, CsvPath))

\* ------------------------------------------------------------------ C8
\* C8: every clipped row is a row of the table that is exported, with the
\* same row label, geometry and attribute, so the export never has fewer
\* rows than the clip.
C8_ClipIsSubsetOfExport ==
    /\ Completed("clip") =>
          /\ \A j \in 1..Len(segmentized_crop) :
                \E k \in 1..Len(segmentized) : segmentized[k] = segmentized_crop[j]
          /\ \A i, j \in 1..Len(segmentized_crop) :
                segmentized_crop[i].idx = segmentized_crop[j].idx => i = j
    /\ HasFile(files, CsvPath) =>
          LET csv == FileContent(files, CsvPath)
          IN  /\ Len(csv) >= Len(segmentized_crop)
              /\ \A j \in 1..Len(segmentized_crop) :
                    \E k \in 1..Len(csv) :
                        csv[k] = ToCsv(<<segmentized_crop[j]>>)[1]

\* The clip dropped some rows and kept others, and the export was written.
C8_Witness ==
    /\ pc = "done"
    /\ Len(segmentized_crop) > 0
    /\ Len(segmentized_crop) < Len(segmentized)
    /\ HasFile(files, CsvPath)


\* ------------------------------------------------------------------ C3
\* C3: once a distance-based operation has been applied to the lines (the
\* first is simplify(10) in cell 6), the line table is in EPSG:2263, and
\* once cell 14 has run the point table is in EPSG:2263.
C3_ReprojectedBeforeDistanceOps ==
    /\ Completed("simplify_crop") => streets_crs = TargetCrs
    /\ Completed("reproject") => segmentized_crs = TargetCrs

\* ------------------------------------------------------------------ C7
\* Distinct vertices of the segmentized line.
VertexSet(line, s) ==
    LET ps == SegmentizeLine(line, s) IN {ps[k] : k \in 1..Len(ps)}

LineCounts(t, s) ==
    [i \in 1..Len(t) |-> Cardinality(VertexSet(t[i].geometry, s))]

\* C7: while the rows carry their back-reference, every row names exactly
\* one existing line, the rows of one line have pairwise distinct locations
\* and are as many as the distinct vertices of the segmentized line; the
\* rejoined and the exported table have the sum of these counts as their
\* number of rows.
C7_OneRowPerUniquePointPerLine ==
    /\ pc = "rejoin" =>
          /\ \A k \in 1..Len(segmentized) :
                segmentized[k].level_0 \in 0..(Len(nyc_streets) - 1)
          /\ \A i \in 1..Len(nyc_streets) :
                LET rows == RowsOfLine(i)
                IN  /\ \A k, m \in rows :
                          segmentized[k].c0 = segmentized[m].c0 => k = m
                    /\ Cardinality(rows) =
                          Cardinality(VertexSet(nyc_streets[i].geometry, Spacing))
    /\ Completed("rejoin") =>
          Len(segmentized) = SumSeq(LineCounts(nyc_streets, Spacing))
    /\ HasFile(files, CsvPath) =>
          Len(FileContent(files, CsvPath)) = SumSeq(LineCounts(nyc_streets, Spacing))

\* A closed ring (first vertex repeated at the end) and another line that
\* starts at the same location have both been exploded.
C7_Witness ==
    /\ pc = "rejoin"
    /\ \E i \in 1..Len(nyc_streets) :
          LET g == nyc_streets[i].geometry
          IN  Len(g) = 4 /\ g[1] = g[4]
    /\ \E k, m \in 1..Len(segmentized) :
          /\ k # m
          /\ segmentized[k].c0 = segmentized[m].c0
          /\ segmentized[k].level_0 # segmentized[m].level_0

\* ------------------------------------------------------------------ C4
\* Point counts per line of the run that differs only in the flag.
CountsUnder(flag) ==
    LET t == SimplifiedStreets(LoadedUnder(flag), flag)
    IN  [i \in 1..Len(t) |-> Len(UniquePointSeries(t, Spacing)[i])]

\* C4 as stated: the number of point rows per line is the number the run
\* with the other flag value produces from the same file.
C4_CountsIndependentOfFlag ==
    pc = "rejoin" =>
        LET other == CountsUnder(~USE_SIDEWALK_WIDTHS)
        IN  \A i \in 1..Len(nyc_streets) :
                Cardinality(RowsOfLine(i)) = other[i]

\* ceil(length / s), at least 1, computed from its defining inequalities.
CeilParts(a, b, s) ==
    CHOOSE n \in 1..((Abs(b[1] - a[1]) + Abs(b[2] - a[2])) \div s + 1) :
        /\ Sq(n * s) >= Len2(a, b)
        /\ n = 1 \/ Sq((n - 1) * s) < Len2(a, b)

\* Distinct locations among the vertices of a line and the points dividing
\* each of its segments into ceil(length / s) equal parts.
ExpectedCount(line, s) ==
    Cardinality(UNION {
        LET a == line[k]
            b == line[k + 1]
            n == CeilParts(a, b, s)
        IN  {Pt(n * a[1] + j * (b[1] - a[1]), n * a[2] + j * (b[2] - a[2]), n) :
                j \in 0..n}
        : k \in 1..(Len(line) - 1)})

\* C4 amended: the number of point rows of a line is determined by the
\* geometry the line table holds when cell 10 runs and the spacing 50; the
\* flag matters only through that geometry, so the other flag value gives
\* the same count for every line whose geometry it leaves the same.
C4_CountsDependOnSegmentizedGeometry ==
    /\ pc = "rejoin" =>
          LET t == SimplifiedStreets(LoadedUnder(~USE_SIDEWALK_WIDTHS),
                                     ~USE_SIDEWALK_WIDTHS)
              other == CountsUnder(~USE_SIDEWALK_WIDTHS)
          IN  \A i \in 1..Len(nyc_streets) :
                /\ Cardinality(RowsOfLine(i)) =
                       ExpectedCount(nyc_streets[i].geometry, Spacing)
                /\ t[i].geometry = nyc_streets[i].geometry =>
                       Cardinality(RowsOfLine(i)) = other[i]
    /\ HasFile(files, CsvPath) =>
          Len(FileContent(files, CsvPath)) =
              SumSeq([i \in 1..Len(nyc_streets) |->
                         ExpectedCount(nyc_streets[i].geometry, Spacing)])

\* A run in which the other flag value would have segmentized a different
\* geometry for some line and produced a different count for it.
C4_Witness ==
    /\ pc = "rejoin"
    /\ \E i \in 1..Len(nyc_streets) :
          /\ SimplifiedStreets(LoadedUnder(~USE_SIDEWALK_WIDTHS),
                               ~USE_SIDEWALK_WIDTHS)[i].geometry
                 # nyc_streets[i].geometry
          /\ Cardinality(RowsOfLine(i)) # CountsUnder(~USE_SIDEWALK_WIDTHS)[i]
    /\ \E i \in 1..Len(nyc_streets) :
          Len(nyc_streets[i].geometry) > 2


\* ------------------------------------------------------------------ C5
\* The scenario's lines: straight, two vertices, lengths 10, 60 and 120.
ScenarioLines ==
    << << <<0, 0>>, <<10, 0>> >>,
       << <<0, 0>>, <<60, 0>> >>,
       << <<0, 0>>, <<120, 0>> >> >>

\* Runs on a file that holds exactly the scenario's three lines, with any
\* attributes, under either flag value and either file CRS.
InitScenario ==
    /\ pc = "load_ntas"
    /\ USE_SIDEWALK_WIDTHS \in BOOLEAN
    /\ file_streets \in
          {[i \in 1..3 |-> [geometry |-> ScenarioLines[i], attr |-> a[i]]] :
              a \in [1..3 -> AttrValues]}
    /\ file_crs \in {GeoJsonCrs, TargetCrs}
    /\ nyc_ntas = <<>>
    /\ nyc_streets = <<>>
    /\ streets_crs = "unset"
    /\ nyc_streets_crop = <<>>
    /\ nyc_streets_crop_simplified = <<>>
    /\ segmentized = <<>>
    /\ segmentized_crs = "unset"
    /\ segmentized_crop = <<>>
    /\ files = {}

SpecScenario == InitScenario /\ [][Next]_vars

\* When cell 10 runs the line table holds the three lines with lengths 10,
\* 60 and 120 in the table's own units.
Scenario ==
    /\ Len(nyc_streets) = 3
    /\ \A i \in 1..3 : nyc_streets[i].geometry = ScenarioLines[i]

\* The attribute column of a table whose line i contributes counts[i] rows.
ExpectedAttrs(counts) ==
    Flatten([i \in 1..Len(counts) |->
                [j \in 1..counts[i] |-> nyc_streets[i].attr]])

ScenarioYields(counts) ==
    /\ (pc = "rejoin" /\ Scenario) =>
          \A i \in 1..3 : Cardinality(RowsOfLine(i)) = counts[i]
    /\ (HasFile(files, CsvPath) /\ Scenario) =>
          LET csv == FileContent(files, CsvPath)
          IN  /\ Len(csv) = SumSeq(counts)
              /\ [k \in 1..Len(csv) |-> csv[k].attr] = ExpectedAttrs(counts)

\* C5 as stated: the three lines yield 2, 2 and 3 points and the export
\* has 7 rows, each with its line's attribute.
C5_ScenarioYields223 == ScenarioYields(<<2, 2, 3>>)

\* C5 amended: the three lines yield 2, 3 and 4 points (a segment of
\* length 60 is cut into 2 equal parts, one of length 120 into 3) and the
\* export has 9 rows, each with its line's attribute.
C5_ScenarioYields234 == ScenarioYields(<<2, 3, 4>>)

\* The scenario was exported, with attributes that differ between lines.
C5_Witness ==
    /\ pc = "done"
    /\ Scenario
    /\ HasFile(files, CsvPath)
    /\ nyc_streets[1].attr # nyc_streets[2].attr

\* ------------------------------------------------------------------ C6
\* C6 as stated: the exported points of every line lie on the line as it
\* was loaded from the file, include the ends of its segments, and follow
\* one another along it at most 50 apart (line and points compared in the
\* CRS of the export).
C6_PointsOnLoadedLine ==
    HasFile(files, CsvPath) =>
        LET csv == FileContent(files, CsvPath)
            e == Exploded
        IN  \A i \in 1..Len(file_streets) :
                LET P == PointsOfLine(csv, e, i)
                    line == ToCrsLine(file_streets[i].geometry, file_crs, TargetCrs)
                IN  /\ \A p \in P : OnLine(p, line)
                    /\ Covers(P, line, Spacing)

\* C6 amended: the points of every line lie on the geometry the line table
\* holds when cell 10 runs (the loaded line when USE_SIDEWALK_WIDTHS, its
\* reprojected simplification otherwise), include the ends of its segments
\* even when the line is shorter than 50, and follow one another along it
\* at most 50 apart in the units of the CRS the table has at that step;
\* the exported points lie on that geometry reprojected with them.
C6_PointsOnSegmentizedLine ==
    /\ pc = "reproject" =>
          LET e == Exploded
          IN  \A i \in 1..Len(nyc_streets) :
                LET P == PointsOfLine(segmentized, e, i)
                    line == nyc_streets[i].geometry
                IN  /\ \A p \in P : OnLine(p, line)
                    /\ Covers(P, line, Spacing)
    /\ HasFile(files, CsvPath) =>
          LET csv == FileContent(files, CsvPath)
              e == Exploded
          IN  \A i \in 1..Len(nyc_streets) :
                LET P == PointsOfLine(csv, e, i)
                    line == ToCrsLine(nyc_streets[i].geometry, streets_crs, TargetCrs)
                IN  /\ \A p \in P : OnLine(p, line)
                    /\ AsPoint(line[1]) \in P
                    /\ AsPoint(line[Len(line)]) \in P

\* A line shorter than the spacing and a line several spacings long have
\* been segmentized, the long one with interior points.
C6_Witness ==
    /\ pc = "reproject"
    /\ \E i \in 1..Len(nyc_streets) :
          /\ Len2(nyc_streets[i].geometry[1], nyc_streets[i].geometry[2]) < Sq(Spacing)
          /\ Cardinality(PointsOfLine(segmentized, Exploded, i)) = 2
    /\ \E i \in 1..Len(nyc_streets) :
          Cardinality(PointsOfLine(segmentized, Exploded, i))
              > Len(nyc_streets[i].geometry)

\* ------------------------------------------------------------------ C10
\* C10 as stated: after cell 8 the line table that is segmentized has the
\* geometry that was loaded, whatever the flag.
C10_SimplifyIsVisualisationOnly ==
    Completed("apply_simplify") =>
        \A i \in 1..Len(nyc_streets) :
            nyc_streets[i].geometry = LoadedUnder(USE_SIDEWALK_WIDTHS)[i].geometry

\* C10 amended: after cell 8 the line table has the loaded geometry when
\* USE_SIDEWALK_WIDTHS is true and the loaded geometry simplified with
\* tolerance 10 when it is false (attributes unchanged either way); the
\* separately kept simplified crop appears only in the side-by-side figure.
C10_SimplifyAppliedUnlessSidewalkWidths ==
    /\ Completed("apply_simplify") =>
          LET loaded == LoadedUnder(USE_SIDEWALK_WIDTHS)
          IN  /\ Len(nyc_streets) = Len(loaded)
              /\ \A i \in 1..Len(nyc_streets) :
                    /\ nyc_streets[i].attr = loaded[i].attr
                    /\ nyc_streets[i].geometry =
                          IF USE_SIDEWALK_WIDTHS THEN loaded[i].geometry
                          ELSE SimplifyLine(loaded[i].geometry, SimplifyTolerance)
    /\ HasFile(files, Fig3) =>
          FileContent(files, Fig3)[2] = nyc_streets_crop_simplified

\* The flag is false and the exported run segmentized a simplified line.
C10_Witness ==
    /\ pc = "done"
    /\ ~USE_SIDEWALK_WIDTHS
    /\ \E i \in 1..Len(nyc_streets) :
          nyc_streets[i].geometry # LoadedUnder(USE_SIDEWALK_WIDTHS)[i].geometry
    /\ HasFile(files, CsvPath)

\* ------------------------------------------------------------------ C9
\* What an export implies about the run.
ExportOnlyAfterAllCells ==
    HasFile(files, CsvPath) =>
        /\ pc = "done"
        /\ HasFile(files, Fig1) /\ HasFile(files, Fig2) /\ HasFile(files, Fig3)
        /\ nyc_ntas # <<>>
        /\ nyc_streets # <<>>
        /\ segmentized_crs = TargetCrs

\* C9: the export file exists only in runs that completed every cell, the
\* figure renders included; the cells run in the fixed order, one after the
\* other, and a failure ends the run: after it nothing changes, so nothing
\* is retried and the export is written at most once.
C9_FailureAbortsRun ==
    /\ []ExportOnlyAfterAllCells
    /\ [][/\ pc # "aborted"
          /\ pc # "done"
          /\ pc' \in {NextCell(pc), "aborted"}
          /\ pc' = "aborted" => files' = files
          /\ HasFile(files, CsvPath) => files' = files]_vars

\* The third figure render failed: two figures exist and no export.
C9_Witness ==
    /\ pc = "aborted"
    /\ HasFile(files, Fig2)
    /\ ~HasFile(files, Fig3)
    /\ ~HasFile(files, CsvPath)
    /\ segmentized_crop # <<>>

=============================================================================
